---- MODULE Spec2Model ----
(***************************************************************************)
(* Model of the detection post-processing pipeline of src/main.py:         *)
(* iou, non_max_suppression and the score filter / class re-assembly of    *)
(* main.                                                                   *)
(*                                                                         *)
(* Conventions.                                                            *)
(*  - Python lists and NumPy arrays are sequences; Python index i is the   *)
(*    model's index i+1.                                                   *)
(*  - A box is <<x1, y1, x2, y2>> of integers (main builds an integer      *)
(*    array from integer literals).                                        *)
(*  - Scores are integers in tenths (0.5 is 5); only their order and       *)
(*    equality are used by the code.                                       *)
(*  - An IoU value is the exact fraction [num, den] with den > 0; the      *)
(*    IoU threshold is a fraction <<num, den>>.                            *)
(*  - np.argsort with the default kind is not a stable sort, so the order  *)
(*    of equal scores is any order an ascending sort can produce.          *)
(***************************************************************************)
EXTENDS Integers, Sequences, FiniteSets, TLC

\* Longest raw prediction list explored.
MaxLen == 3

\* score_threshold of main, in tenths.
score_threshold == 5

Max(a, b) == IF a >= b THEN a ELSE b
Min(a, b) == IF a <= b THEN a ELSE b

\* Boxes the raw predictions are drawn from:
\*   <<0,0,2,2>> and <<0,0,2,1>> have IoU exactly 1/2,
\*   <<0,0,2,2>> and <<1,0,3,2>> have IoU 1/3, <<0,0,2,1>> and <<1,0,3,2>> 1/5,
\*   <<0,0,0,0>> is degenerate (zero area, IoU 0 with every box, itself included).
BoxA == <<0, 0, 2, 2>>
BoxB == <<0, 0, 2, 1>>
BoxC == <<1, 0, 3, 2>>
BoxD == <<0, 0, 0, 0>>

ClassName(cid) == IF cid = 0 THEN "nguoi" ELSE "xe"

Pred(b, s, cid) == <<b[1], b[2], b[3], b[4], s, cid, ClassName(cid)>>

\* Rows [x1, y1, x2, y2, score, class_id, class_name] a raw prediction is drawn from.
RawPool ==
    { Pred(BoxA, 9, 0), Pred(BoxA, 9, 1), Pred(BoxB, 9, 0), Pred(BoxC, 9, 0),
      Pred(BoxD, 5, 0), Pred(BoxD, 5, 1), Pred(BoxA, 4, 0) }

\* IoU thresholds explored (main uses 1/2).
IouThresholds == { <<1, 2>>, <<1, 3>> }

SeqsUpTo(S, n) == UNION { [1..k -> S] : k \in 0..n }

VARIABLES
    pc,                             \* position in main / non_max_suppression
    raw_predictions,                \* main: the raw rows
    iou_threshold,                  \* main: iou_threshold
    high_confidence_indices,        \* main
    filtered_boxes, filtered_scores,
    filtered_class_ids, filtered_class_names,
    sorted_indices, keep_boxes,     \* non_max_suppression locals
    nms_result,                     \* value returned by non_max_suppression
    final_boxes, final_scores,
    final_predictions_with_classes,
    reapply_result                  \* result of a second non_max_suppression call

vars == << pc, raw_predictions, iou_threshold, high_confidence_indices,
           filtered_boxes, filtered_scores, filtered_class_ids,
           filtered_class_names, sorted_indices, keep_boxes, nms_result,
           final_boxes, final_scores, final_predictions_with_classes,
           reapply_result >>

----
\* iou(box1, box2)

\* lines 23-25 with the zero check left out
RatioUnguarded(inter_area, union_area) ==
    [num |-> inter_area, den |-> union_area]

\* lines 23-25: 0 when the union is empty, else inter_area / union_area
Ratio(inter_area, union_area) ==
    IF union_area = 0
    THEN [num |-> 0, den |-> 1]
    ELSE [num |-> inter_area, den |-> union_area]

iou(box1, box2) ==
    LET x1_inter == Max(box1[1], box2[1])
        y1_inter == Max(box1[2], box2[2])
        x2_inter == Min(box1[3], box2[3])
        y2_inter == Min(box1[4], box2[4])
        inter_width == Max(0, x2_inter - x1_inter)
        inter_height == Max(0, y2_inter - y1_inter)
        inter_area == inter_width * inter_height
        box1_area == (box1[3] - box1[1]) * (box1[4] - box1[2])
        box2_area == (box2[3] - box2[1]) * (box2[4] - box2[2])
        union_area == box1_area + box2_area - inter_area
    IN  Ratio(inter_area, union_area)

\* q < t for an IoU value q and a threshold t = <<num, den>>, den > 0.
IouLess(q, t) ==
    IF q.den > 0 THEN q.num * t[2] < t[1] * q.den
                 ELSE q.num * t[2] > t[1] * q.den

----
\* main, lines 110-122: split the rows and filter by score

boxes == [i \in 1..Len(raw_predictions) |-> SubSeq(raw_predictions[i], 1, 4)]
scores == [i \in 1..Len(raw_predictions) |-> raw_predictions[i][5]]
class_ids == [i \in 1..Len(raw_predictions) |-> raw_predictions[i][6]]
class_names == [i \in 1..Len(raw_predictions) |-> raw_predictions[i][7]]

\* np.where(cond)[0] from index i on: the indices at which the boolean
\* array cond holds, ascending.
RECURSIVE WhereFrom(_, _)
WhereFrom(cond, i) ==
    IF i > Len(cond) THEN << >>
    ELSE IF cond[i] THEN << i >> \o WhereFrom(cond, i + 1)
         ELSE WhereFrom(cond, i + 1)

\* the comparison with > in place of >=
ScoreAbove(s, threshold) == s > threshold

\* line 117: scores >= score_threshold
ScoreAtLeast(s, threshold) == s >= threshold

HighConfidence(scs, threshold) ==
    WhereFrom([i \in 1..Len(scs) |-> ScoreAtLeast(scs[i], threshold)], 1)

\* a[idx] for an index array idx
Take(a, idx) == [k \in 1..Len(idx) |-> a[idx[k]]]

Init ==
    /\ pc = "start"
    /\ raw_predictions \in SeqsUpTo(RawPool, MaxLen)
    /\ iou_threshold \in IouThresholds
    /\ high_confidence_indices = << >>
    /\ filtered_boxes = << >>
    /\ filtered_scores = << >>
    /\ filtered_class_ids = << >>
    /\ filtered_class_names = << >>
    /\ sorted_indices = << >>
    /\ keep_boxes = << >>
    /\ nms_result = << >>
    /\ final_boxes = << >>
    /\ final_scores = << >>
    /\ final_predictions_with_classes = << >>
    /\ reapply_result = << >>

ScoreFilter ==
    /\ pc = "start"
    /\ high_confidence_indices' = HighConfidence(scores, score_threshold)
    /\ filtered_boxes' = Take(boxes, high_confidence_indices')
    /\ filtered_scores' = Take(scores, high_confidence_indices')
    /\ filtered_class_ids' = Take(class_ids, high_confidence_indices')
    /\ filtered_class_names' = Take(class_names, high_confidence_indices')
    /\ pc' = "call"
    /\ UNCHANGED << raw_predictions, iou_threshold, sorted_indices, keep_boxes,
                    nms_result, final_boxes, final_scores,
                    final_predictions_with_classes, reapply_result >>

----
\* non_max_suppression(boxes, scores, iou_threshold)

Reverse(s) == [k \in 1..Len(s) |-> s[Len(s) + 1 - k]]

\* np.argsort(scs): the index orders an ascending (not necessarily stable) sort yields
ArgSorts(scs) ==
    LET n == Len(scs)
    IN  { o \in [1..n -> 1..n] :
            /\ \A a, b \in 1..n : a # b => o[a] # o[b]
            /\ \A a \in 1..n : a < n => scs[o[a]] <= scs[o[a + 1]] }

\* np.argsort(scs) with the reversal left out
AscendingOrders(scs) == ArgSorts(scs)

\* np.argsort(scs)[::-1]
DescendingOrders(scs) == { Reverse(o) : o \in ArgSorts(scs) }

\* the test of line 57 with <= in place of <
SuppressedAbove(q, t) == ~IouLess(q, t) /\ q.num * t[2] # t[1] * q.den

\* line 57: a candidate is dropped unless its IoU is below the threshold
Suppressed(q, t) == ~IouLess(q, t)

\* line 58 with the positions of np.where used as indices
RemainingPositions(best_box_idx, candidates, bxs, t) ==
    WhereFrom([k \in 1..Len(candidates) |->
                 ~Suppressed(iou(bxs[best_box_idx], bxs[candidates[k]]), t)], 1)

\* lines 54-58: the candidates whose IoU with the anchor is below the threshold
Remaining(best_box_idx, candidates, bxs, t) ==
    LET keeps(idx) == ~Suppressed(iou(bxs[best_box_idx], bxs[idx]), t)
    IN  SelectSeq(candidates, keeps)

\* line 48 left out
KeepBest(candidates) == candidates

\* line 48: sorted_indices[1:]
PopBest(candidates) == Tail(candidates)

\* lines 44-58: one iteration of the while loop, as <<sorted_indices, keep_boxes>>
Iterate(candidates, keep, bxs, t) ==
    LET best_box_idx == Head(candidates)
        keep2 == Append(keep, best_box_idx)
        rest == PopBest(candidates)
    IN  IF Len(rest) = 0
        THEN << rest, keep2 >>
        ELSE << Remaining(best_box_idx, rest, bxs, t), keep2 >>

\* line 60: the returned pair
Returned(bxs, scs, keep) == << Take(bxs, keep), Take(scs, keep) >>

RECURSIVE WhileLoop(_, _, _, _)
WhileLoop(candidates, keep, bxs, t) ==
    IF Len(candidates) = 0 THEN keep
    ELSE LET st == Iterate(candidates, keep, bxs, t)
         IN  WhileLoop(st[1], st[2], bxs, t)

\* the values non_max_suppression can return
non_max_suppression(bxs, scs, t) ==
    IF Len(bxs) = 0 THEN { << >> }
    ELSE { Returned(bxs, scs, WhileLoop(order, << >>, bxs, t)) :
             order \in DescendingOrders(scs) }

NMSEmpty ==
    /\ pc = "call"
    /\ Len(filtered_boxes) = 0
    /\ nms_result' = << >>
    /\ pc' = "returned"
    /\ UNCHANGED << raw_predictions, iou_threshold, high_confidence_indices,
                    filtered_boxes, filtered_scores, filtered_class_ids,
                    filtered_class_names, sorted_indices, keep_boxes,
                    final_boxes, final_scores, final_predictions_with_classes,
                    reapply_result >>

NMSSort ==
    /\ pc = "call"
    /\ Len(filtered_boxes) # 0
    /\ sorted_indices' \in DescendingOrders(filtered_scores)
    /\ keep_boxes' = << >>
    /\ pc' = "loop"
    /\ UNCHANGED << raw_predictions, iou_threshold, high_confidence_indices,
                    filtered_boxes, filtered_scores, filtered_class_ids,
                    filtered_class_names, nms_result,
                    final_boxes, final_scores, final_predictions_with_classes,
                    reapply_result >>

NMSIterate ==
    /\ pc = "loop"
    /\ Len(sorted_indices) > 0
    /\ LET st == Iterate(sorted_indices, keep_boxes, filtered_boxes, iou_threshold)
       IN  /\ sorted_indices' = st[1]
           /\ keep_boxes' = st[2]
    /\ UNCHANGED << pc, raw_predictions, iou_threshold, high_confidence_indices,
                    filtered_boxes, filtered_scores, filtered_class_ids,
                    filtered_class_names, nms_result,
                    final_boxes, final_scores, final_predictions_with_classes,
                    reapply_result >>

NMSReturn ==
    /\ pc = "loop"
    /\ Len(sorted_indices) = 0
    /\ nms_result' = Returned(filtered_boxes, filtered_scores, keep_boxes)
    /\ pc' = "returned"
    /\ UNCHANGED << raw_predictions, iou_threshold, high_confidence_indices,
                    filtered_boxes, filtered_scores, filtered_class_ids,
                    filtered_class_names, sorted_indices, keep_boxes,
                    final_boxes, final_scores, final_predictions_with_classes,
                    reapply_result >>

----
\* main, lines 134-150

\* line 134: final_boxes, final_scores = non_max_suppression(...)
\* Unpacking a value that is not of length 2 raises ValueError.
Unpack ==
    /\ pc = "returned"
    /\ IF Len(nms_result) = 2
       THEN /\ final_boxes' = nms_result[1]
            /\ final_scores' = nms_result[2]
            /\ pc' = "reassemble"
       ELSE /\ pc' = "error"
            /\ UNCHANGED << final_boxes, final_scores >>
    /\ UNCHANGED << raw_predictions, iou_threshold, high_confidence_indices,
                    filtered_boxes, filtered_scores, filtered_class_ids,
                    filtered_class_names, sorted_indices, keep_boxes,
                    nms_result, final_predictions_with_classes,
                    reapply_result >>

\* lines 144-145: the filtered indices whose box and score equal the final ones
Matches(final_box, final_score) ==
    { i \in 1..Len(filtered_boxes) :
        final_box = filtered_boxes[i] /\ final_score = filtered_scores[i] }

FirstOf(S) == CHOOSE i \in S : \A j \in S : i <= j

\* lines 143-150
RECURSIVE Reassembled(_)
Reassembled(k) ==
    IF k > Min(Len(final_boxes), Len(final_scores)) THEN << >>
    ELSE LET final_box == final_boxes[k]
             final_score == final_scores[k]
             m == Matches(final_box, final_score)
         IN  IF m = {} THEN Reassembled(k + 1)
             ELSE LET i == FirstOf(m)
                  IN  << << final_box[1], final_box[2], final_box[3], final_box[4],
                            final_score, filtered_class_ids[i],
                            filtered_class_names[i] >> >>
                      \o Reassembled(k + 1)

Reassemble ==
    /\ pc = "reassemble"
    /\ final_predictions_with_classes' = Reassembled(1)
    /\ pc' = "done"
    /\ UNCHANGED << raw_predictions, iou_threshold, high_confidence_indices,
                    filtered_boxes, filtered_scores, filtered_class_ids,
                    filtered_class_names, sorted_indices, keep_boxes,
                    nms_result, final_boxes, final_scores, reapply_result >>

Next ==
    \/ ScoreFilter
    \/ NMSEmpty
    \/ NMSSort
    \/ NMSIterate
    \/ NMSReturn
    \/ Unpack
    \/ Reassemble

Spec == Init /\ [][Next]_vars

\* The scheduler is the Python interpreter: an enabled step is taken.
FairSpec == Spec /\ WF_vars(Next)

----
\* A second call of non_max_suppression on the pair the first call returned
\* (an empty return value stands for the empty pool).

Reapply ==
    /\ pc = "returned"
    /\ LET bxs == IF Len(nms_result) = 2 THEN nms_result[1] ELSE << >>
           scs == IF Len(nms_result) = 2 THEN nms_result[2] ELSE << >>
       IN  reapply_result' \in non_max_suppression(bxs, scs, iou_threshold)
    /\ pc' = "reapplied"
    /\ UNCHANGED << raw_predictions, iou_threshold, high_confidence_indices,
                    filtered_boxes, filtered_scores, filtered_class_ids,
                    filtered_class_names, sorted_indices, keep_boxes,
                    nms_result, final_boxes, final_scores,
                    final_predictions_with_classes >>

NextIdem ==
    \/ ScoreFilter
    \/ NMSEmpty
    \/ NMSSort
    \/ NMSIterate
    \/ NMSReturn
    \/ Reapply

IdemSpec == Init /\ [][NextIdem]_vars

----
\* Properties

InNMS == pc \in {"loop", "returned", "reassemble", "done", "reapplied"}
HasReturnedPair == pc \in {"returned", "reassemble", "done", "reapplied"}
                     /\ Len(nms_result) = 2

Range(s) == { s[k] : k \in 1..Len(s) }

\* the order in which non_max_suppression takes or would take the anchors
ProcessingOrder == keep_boxes \o sorted_indices

IouEquals(q, t) == q.num * t[2] = t[1] * q.den

\* C1: each final detection carries the class id and class name of the
\* filtered detection that non_max_suppression kept at that position, also
\* when two filtered detections have the same box and score but different
\* classes.
C1_ClassOfKeptIndex ==
    pc = "done" =>
        /\ Len(final_predictions_with_classes) = Len(keep_boxes)
        /\ \A k \in 1..Len(final_predictions_with_classes) :
             /\ final_predictions_with_classes[k][6]
                  = filtered_class_ids[keep_boxes[k]]
             /\ final_predictions_with_classes[k][7]
                  = filtered_class_names[keep_boxes[k]]

\* C2: when the raw set is empty or the score filter removes everything, the
\* pipeline reaches no error state and ends with an empty final list.
C2_EmptyPoolNoError ==
    (pc # "start" /\ Len(filtered_boxes) = 0) =>
        /\ pc # "error"
        /\ final_predictions_with_classes = << >>

\* C3: equal scores are taken in input order: for filtered indices i < j with
\* the same score, i is processed before j, and when their IoU reaches the
\* threshold and no other kept detection suppresses i, it is not j that is
\* kept in place of i.
C3_TiesInInputOrder ==
    InNMS =>
        /\ \A p, q \in 1..Len(ProcessingOrder) :
             (p < q /\ filtered_scores[ProcessingOrder[p]]
                         = filtered_scores[ProcessingOrder[q]])
                => ProcessingOrder[p] < ProcessingOrder[q]
        /\ HasReturnedPair =>
             \A i, j \in 1..Len(filtered_boxes) :
                (/\ i < j
                 /\ filtered_scores[i] = filtered_scores[j]
                 /\ Suppressed(iou(filtered_boxes[i], filtered_boxes[j]),
                               iou_threshold)
                 /\ j \in Range(keep_boxes))
                => \E a \in Range(keep_boxes) \ {j} :
                      Suppressed(iou(filtered_boxes[a], filtered_boxes[i]),
                                 iou_threshold)

\* C4: applying non_max_suppression to what it returned, with the same
\* threshold, returns the same boxes and scores in the same order.
C4_Idempotent ==
    pc = "reapplied" => reapply_result = nms_result

\* C5: any two distinct detections kept by non_max_suppression have an IoU
\* strictly below the threshold; a candidate whose IoU with a kept anchor
\* reaches or equals the threshold is not in the output.
C5_KeptPairsBelowThreshold ==
    /\ \A p, q \in 1..Len(keep_boxes) :
          p # q => IouLess(iou(filtered_boxes[keep_boxes[p]],
                               filtered_boxes[keep_boxes[q]]), iou_threshold)
    /\ HasReturnedPair =>
          \A p, q \in 1..Len(nms_result[1]) :
             p # q => IouLess(iou(nms_result[1][p], nms_result[1][q]),
                              iou_threshold)

\* a candidate was dropped for an IoU exactly equal to the threshold, and two
\* or more detections were returned
C5_Witness ==
    /\ pc = "returned"
    /\ Len(keep_boxes) >= 2
    /\ \E i \in 1..Len(filtered_boxes) :
          /\ i \notin Range(keep_boxes)
          /\ \E a \in Range(keep_boxes) :
                /\ IouEquals(iou(filtered_boxes[a], filtered_boxes[i]),
                             iou_threshold)
                /\ \A b \in Range(keep_boxes) \ {a} :
                      IouLess(iou(filtered_boxes[b], filtered_boxes[i]),
                              iou_threshold)

\* C6: at every iteration and on return the kept indices are pairwise
\* distinct valid indices of the pool, disjoint from the remaining candidates;
\* the output holds input detections only (same box, same score) and is no
\* longer than the input.
C6_KeptIndicesDistinctValid ==
    /\ \A p \in 1..Len(keep_boxes) : keep_boxes[p] \in 1..Len(filtered_boxes)
    /\ \A p, q \in 1..Len(keep_boxes) : p # q => keep_boxes[p] # keep_boxes[q]
    /\ Range(keep_boxes) \cap Range(sorted_indices) = {}
    /\ Len(keep_boxes) <= Len(filtered_boxes)
    /\ HasReturnedPair =>
          /\ Len(nms_result[1]) = Len(keep_boxes)
          /\ Len(nms_result[2]) = Len(keep_boxes)
          /\ Len(nms_result[1]) <= Len(filtered_boxes)
          /\ \A k \in 1..Len(keep_boxes) :
                /\ nms_result[1][k] = filtered_boxes[keep_boxes[k]]
                /\ nms_result[2][k] = filtered_scores[keep_boxes[k]]

\* in the middle of the loop: an anchor kept, a candidate suppressed, a
\* candidate still waiting
C6_Witness ==
    /\ pc = "loop"
    /\ Len(keep_boxes) >= 1
    /\ Len(sorted_indices) >= 1
    /\ Len(keep_boxes) + Len(sorted_indices) < Len(filtered_boxes)

\* C7: the detections returned by non_max_suppression are in score-descending
\* order, whatever the order of the input.
C7_OutputScoreDescending ==
    /\ \A k \in 1..Len(keep_boxes) :
          k < Len(keep_boxes) =>
             filtered_scores[keep_boxes[k]] >= filtered_scores[keep_boxes[k + 1]]
    /\ HasReturnedPair =>
          \A k \in 1..Len(nms_result[2]) :
             k < Len(nms_result[2]) => nms_result[2][k] >= nms_result[2][k + 1]

\* two detections with different scores returned from an input in ascending
\* score order
C7_Witness ==
    /\ pc = "returned"
    /\ Len(nms_result) = 2
    /\ Len(nms_result[2]) >= 2
    /\ nms_result[2][1] > nms_result[2][2]
    /\ filtered_scores[1] < filtered_scores[2]

\* C8: the score filter returns exactly the input detections with
\* score >= score_threshold (equal is kept, below is dropped), in input order,
\* each with the box, score, class id and class name of its input index.
C8_ScoreFilterExact ==
    pc # "start" =>
        /\ Range(high_confidence_indices)
             = { i \in 1..Len(raw_predictions) :
                   raw_predictions[i][5] >= score_threshold }
        /\ \A k \in 1..Len(high_confidence_indices) :
             k < Len(high_confidence_indices) =>
                high_confidence_indices[k] < high_confidence_indices[k + 1]
        /\ Len(filtered_boxes) = Len(high_confidence_indices)
        /\ Len(filtered_scores) = Len(high_confidence_indices)
        /\ Len(filtered_class_ids) = Len(high_confidence_indices)
        /\ Len(filtered_class_names) = Len(high_confidence_indices)
        /\ \A k \in 1..Len(high_confidence_indices) :
             LET row == raw_predictions[high_confidence_indices[k]]
             IN  /\ filtered_boxes[k] = << row[1], row[2], row[3], row[4] >>
                 /\ filtered_scores[k] = row[5]
                 /\ filtered_class_ids[k] = row[6]
                 /\ filtered_class_names[k] = row[7]

\* the filter has run on a list with a score below the threshold followed by
\* one equal to it and one above it
C8_Witness ==
    /\ pc = "call"
    /\ Len(raw_predictions) = 3
    /\ raw_predictions[1][5] < score_threshold
    /\ raw_predictions[2][5] = score_threshold
    /\ raw_predictions[3][5] > score_threshold
    /\ high_confidence_indices = << 2, 3 >>

ValidBox(b) == b[3] >= b[1] /\ b[4] >= b[2]

Area(b) == (b[3] - b[1]) * (b[4] - b[2])

\* C9: for valid boxes iou is at least 0 and at most 1, and is 0, with no
\* division by zero, when the union area is 0.
C9_IouRange ==
    \A i, j \in 1..Len(raw_predictions) :
        LET a == SubSeq(raw_predictions[i], 1, 4)
            b == SubSeq(raw_predictions[j], 1, 4)
            q == iou(a, b)
        IN  (ValidBox(a) /\ ValidBox(b)) =>
               /\ q.den > 0
               /\ 0 <= q.num
               /\ q.num <= q.den
               /\ (Area(a) = 0 /\ Area(b) = 0) => q.num = 0

\* the loop has compared an anchor with its candidates in a pool that holds
\* two zero-area boxes (union 0, no division) and a box of positive area
\* (union above 0, division performed)
C9_Witness ==
    /\ pc = "loop"
    /\ Len(keep_boxes) >= 1
    /\ \E i, j, k \in 1..Len(filtered_boxes) :
          /\ i # j
          /\ Area(filtered_boxes[i]) = 0 /\ Area(filtered_boxes[j]) = 0
          /\ iou(filtered_boxes[i], filtered_boxes[j]) = [num |-> 0, den |-> 1]
          /\ Area(filtered_boxes[k]) > 0
          /\ iou(filtered_boxes[k], filtered_boxes[k]).num
               = iou(filtered_boxes[k], filtered_boxes[k]).den

\* C10: non_max_suppression terminates: every iteration of the while loop
\* removes at least the anchor from the candidates and keeps one more index,
\* there are never more kept indices than input detections, and every call
\* returns.
C10_Terminates ==
    /\ [][(pc = "loop" /\ Len(sorted_indices) > 0) =>
             /\ Len(sorted_indices') < Len(sorted_indices)
             /\ Len(keep_boxes') = Len(keep_boxes) + 1]_vars
    /\ [](Len(keep_boxes) <= Len(filtered_boxes))
    /\ <>(pc = "returned")

\* a call that returned after as many iterations as there are detections
C10_Witness ==
    /\ pc = "returned"
    /\ Len(filtered_boxes) = MaxLen
    /\ Len(keep_boxes) = Len(filtered_boxes)

====
